---------------------------- MODULE Spec2Model ----------------------------
(***************************************************************************)
(* ChannelDownloader (src/channel_downloader.py): the catalog cache         *)
(* (get_video_urls), the single video download path (download_video) with   *)
(* its temporary file, the worker pool of download_channel, the metadata    *)
(* cache (save_video_metadata, get_video_metadata), the Resolution Selector *)
(* (get_stream_by_resolution) and the Path Resolver.                        *)
(*                                                                          *)
(* The file system is a map from paths to contents.  A path is a pair       *)
(* <<directory, file name>>; a file name is a sequence of name parts.  A    *)
(* video file's content is the set of chunk positions that hold data, so    *)
(* an empty file is {} and a fully written one is 1..NChunks.  Relative     *)
(* file names resolve against the process working directory cwd, which      *)
(* os.chdir changes for every thread of the process.                        *)
(***************************************************************************)
EXTENDS Integers, Sequences, FiniteSets, TLC

(* ---- bounds ---- *)
NChunks == 2        \* chunks of a complete stream
MaxThreads == 2     \* max_threads of the pool
MaxPages == 2       \* pages the provider listing can have
MaxOps == 2         \* top-level calls in one run of the model
MaxStreams == 3     \* progressive streams a video offers
MaxIdLen == 2       \* parts of a video identifier given to the Path Resolver
MaxFetches == 2     \* provider fetches one get_video_metadata call is followed for

(* ---- the universe of names ---- *)
VideoIds == {"a", "b"}
OrigDir == "home"           \* working directory the process starts in
OutputDir == "out"          \* self.output_dir (absolute)
ChannelDir == "out/chan"    \* os.path.join(output_dir, channel_name)
Dirs == {OrigDir, OutputDir, ChannelDir}
None == "None"

(* a URL is a sequence of tokens; the enumerator builds watch URLs *)
WatchUrl(video_id) == <<"https://www.youtube.com/", "watch?v=", video_id>>

RECURSIVE IndexOf(_, _, _)
IndexOf(s, tok, from) ==
    IF from > Len(s) THEN 0
    ELSE IF s[from] = tok THEN from ELSE IndexOf(s, tok, from + 1)

RECURSIVE LastIndexOf(_, _, _)
LastIndexOf(s, tok, from) ==
    IF from < 1 THEN 0
    ELSE IF s[from] = tok THEN from ELSE LastIndexOf(s, tok, from - 1)

(* an extraction that takes the text before "watch?v=" *)
get_video_id_before(url) ==
    IF IndexOf(url, "watch?v=", 1) > 0
    THEN SubSeq(url, 1, IndexOf(url, "watch?v=", 1) - 1)
    ELSE SubSeq(url, LastIndexOf(url, "/", Len(url)) + 1, Len(url))

(* url.split("watch?v=")[1].split("&")[0], else url.split("/")[-1] *)
get_video_id(url) ==
    IF IndexOf(url, "watch?v=", 1) > 0
    THEN LET rest == SubSeq(url, IndexOf(url, "watch?v=", 1) + 1, Len(url))
             nxt  == IndexOf(rest, "watch?v=", 1)
             seg  == IF nxt > 0 THEN SubSeq(rest, 1, nxt - 1) ELSE rest
             amp  == IndexOf(seg, "&", 1)
         IN  IF amp > 0 THEN SubSeq(seg, 1, amp - 1) ELSE seg
    ELSE SubSeq(url, LastIndexOf(url, "/", Len(url)) + 1, Len(url))

(* ---- Path Resolver ---- *)
final_filename(video_id) == video_id \o <<".mp4">>
temp_filename(video_id) == video_id \o <<".downloading", ".mp4">>
meta_filename(video_id) == video_id \o <<".json">>
list_filename == <<"video_list", ".json">>

BaseDir(ccd) == IF ccd # None THEN ccd ELSE OutputDir

get_video_path(ccd, video_id) == <<BaseDir(ccd), final_filename(video_id)>>
get_metadata_path(ccd, video_id) == <<BaseDir(ccd), meta_filename(video_id)>>
(* a temporary path that is the final path *)
get_temp_video_path_final(ccd, video_id) ==
    <<BaseDir(ccd), final_filename(video_id)>>

get_temp_video_path(ccd, video_id) == <<BaseDir(ccd), temp_filename(video_id)>>
get_video_list_file == <<ChannelDir, list_filename>>

(* the name a "save as" download gives as target_path, in the output   *)
(* directory, and os.path.splitext(new_path)[0] + '.json' (line 198)    *)
TargetName == <<"saved", ".mp4">>
NoTarget == <<>>            \* target_path is None
TargetPaths == {<<OutputDir, TargetName>>}
new_meta_path(new_path) ==
    <<new_path[1], SubSeq(new_path[2], 1, Len(new_path[2]) - 1) \o <<".json">>>>

IdSeqs == {<<v>> : v \in VideoIds}
FileNames == {final_filename(v) : v \in IdSeqs} \cup {temp_filename(v) : v \in IdSeqs}
             \cup {meta_filename(v) : v \in IdSeqs} \cup {list_filename}
             \cup {TargetName, new_meta_path(<<OutputDir, TargetName>>)[2]}
Paths == Dirs \X FileNames

(* ---- Resolution Selector (lines 296-336) ---- *)
(* a resolution label is a string of characters: "720p" is <<"7","2","0","p">> *)
Digits == <<"0", "1", "2", "3", "4", "5", "6", "7", "8", "9">>
IsDigit(c) == \E d \in 1 .. 10 : Digits[d] = c
DigitOf(c) == (CHOOSE d \in 1 .. 10 : Digits[d] = c) - 1

RECURSIVE ToDigits(_)
ToDigits(n) ==
    IF n < 10 THEN <<Digits[n + 1]>>
    ELSE ToDigits(n \div 10) \o <<Digits[(n % 10) + 1]>>

Label(n) == ToDigits(n) \o <<"p">>

ValueError == -1
NoLabel == <<>>             \* no stream: None
Raises == <<"ValueError">>  \* the call raises ValueError

(* int(text): the decimal value of a string of digits, ValueError otherwise *)
RECURSIVE IntOfDigits(_, _)
IntOfDigits(text, acc) ==
    IF text = <<>> THEN acc
    ELSE IF IsDigit(Head(text))
         THEN IntOfDigits(Tail(text), 10 * acc + DigitOf(Head(text)))
         ELSE ValueError

ParseInt(text) == IF text = <<>> THEN ValueError ELSE IntOfDigits(text, 0)

(* int(label.replace('p', '')) *)
ResolutionOf(label) == ParseInt(SelectSeq(label, LAMBDA c : c # "p"))

(* the resolutions a progressive mp4 stream can have, and the sets of    *)
(* streams of a video; a stream is named by its resolution label         *)
Resolutions == {144, 240, 360, 480, 720, 1080}
Labels == {Label(n) : n \in Resolutions}
StreamSets == {S \in SUBSET Labels : Cardinality(S) <= MaxStreams}

(* yt.streams.filter(...).order_by('resolution').desc(): the streams by *)
(* the integer in their label, the largest first                        *)
RECURSIVE OrderByResolutionDesc(_)
OrderByResolutionDesc(S) ==
    IF S = {} THEN <<>>
    ELSE LET top == CHOOSE s \in S :
                        \A t \in S : ResolutionOf(t) <= ResolutionOf(s)
         IN  <<top>> \o OrderByResolutionDesc(S \ {top})

(* the last stream of the scan that is at or below the target *)
RECURSIVE LastAtMost(_, _, _)
LastAtMost(streams, target, from) ==
    IF from < 1 THEN 0
    ELSE IF ResolutionOf(streams[from]) <= target THEN from
         ELSE LastAtMost(streams, target, from - 1)

(* lines 319-326: the first stream of the scan that is at or below the target *)
RECURSIVE FirstAtMost(_, _, _)
FirstAtMost(streams, target, from) ==
    IF from > Len(streams) THEN 0
    ELSE IF ResolutionOf(streams[from]) <= target THEN from
         ELSE FirstAtMost(streams, target, from + 1)

(* a scan that takes the lowest stream at or below the target *)
ClosestBelowLowest(streams, target) == LastAtMost(streams, target, Len(streams))

(* a scan that accepts no stream *)
ClosestBelowNone(streams, target) == 0

ClosestBelow(streams, target) == FirstAtMost(streams, target, 1)

get_stream_by_resolution(S, preferred_resolution) ==
    LET streams == OrderByResolutionDesc(S)
        target_res == ResolutionOf(preferred_resolution)
        exact == SelectSeq(streams, LAMBDA st : st = preferred_resolution)
        below == ClosestBelow(streams, target_res)
    IN  IF streams = <<>> THEN NoLabel
        ELSE IF target_res = ValueError THEN Raises
        ELSE IF exact # <<>> THEN Head(exact)
        ELSE IF below > 0 THEN streams[below]
        ELSE Head(streams)

(* a fallback that finds a stream whatever the video offers *)
get_highest_resolution_any(S) == Label(360)

(* yt.streams.get_highest_resolution(): the last progressive stream in *)
(* ascending order, None when the video has none                       *)
get_highest_resolution(S) ==
    IF S = {} THEN NoLabel ELSE Head(OrderByResolutionDesc(S))

(* ---- file contents ---- *)
NoFile == [kind |-> "none"]
VideoFile(data) == [kind |-> "video", data |-> data]
MetaFile(doc) == [kind |-> "meta", doc |-> doc]
ListFile(urls) == [kind |-> "list", urls |-> urls]

Exists(f, p) == f[p] # NoFile
Size(f, p) == IF f[p].kind = "video" THEN Cardinality(f[p].data) ELSE 1
FullData == 1 .. NChunks

(* ---- video metadata (lines 22-32, 152-183) ---- *)
(* what the provider's handle yt shows of a video *)
Titles == {"t1", "t2"}
Lengths == {0, 60}
NoDate == <<>>              \* publish_date is None
PublishDates == {NoDate, <<2024, 1, 31>>}
KeywordLists == {<<>>, <<"k1", "k2">>, <<"k2", "k1">>}

ProviderWatchUrl(video_id) == <<"https://youtube.com/", "watch?v=">> \o video_id

Handle(video_id, title, length, publish_date, keywords) ==
    [watch_url |-> ProviderWatchUrl(video_id), title |-> title,
     description |-> "text", author |-> "author", length |-> length,
     publish_date |-> publish_date, keywords |-> keywords,
     channel_url |-> "channel", metadata |-> <<>>]

(* the handles YouTube(url) can give for a video *)
ProviderVideos(video_id) ==
    {Handle(video_id, t, n, d, k) :
        t \in Titles, n \in Lengths, d \in PublishDates, k \in KeywordLists}

(* in a batch the model holds the provider's answer for a video fixed *)
BatchVideos(video_id) ==
    {Handle(video_id, "t1", 60, <<2024, 1, 31>>, <<"k1", "k2">>)}

(* lines 154-165: the constructor validates date as a datetime *)
Validates(yt) == yt.publish_date # NoDate

VideoMetadataModel(yt, video_id) ==
    [file_name |-> video_id, url |-> yt.watch_url, title |-> yt.title,
     description |-> yt.description, author |-> yt.author,
     length |-> yt.length, date |-> yt.publish_date,
     keywords |-> yt.keywords, channel_url |-> yt.channel_url,
     metadata |-> yt.metadata]

(* JSON values: strings, numbers and arrays; a datetime is written as its *)
(* ISO 8601 text and read back from it                                    *)
JString(text) == <<"string", text>>
JNumber(n) == <<"number", n>>
JArray(items) == <<"array", items>>
isoformat(d) == <<"iso8601", d>>
fromisoformat(text) == text[2]

(* line 169: metadata.model_dump_json(indent=4) *)
model_dump_json(m) ==
    [file_name |-> JString(m.file_name), url |-> JString(m.url),
     title |-> JString(m.title), description |-> JString(m.description),
     author |-> JString(m.author), length |-> JNumber(m.length),
     date |-> JString(isoformat(m.date)),
     keywords |-> JArray([k \in 1 .. Len(m.keywords) |-> JString(m.keywords[k])]),
     channel_url |-> JString(m.channel_url), metadata |-> JArray(m.metadata)]

(* a reader that takes the declared default for keywords *)
model_validate_json_no_keywords(doc) ==
    [file_name |-> doc.file_name[2], url |-> doc.url[2],
     title |-> doc.title[2], description |-> doc.description[2],
     author |-> doc.author[2], length |-> doc.length[2],
     date |-> fromisoformat(doc.date[2]),
     keywords |-> <<>>,
     channel_url |-> doc.channel_url[2], metadata |-> doc.metadata[2]]

(* line 178: VideoMetadataModel.model_validate_json(f.read()) *)
model_validate_json(doc) ==
    [file_name |-> doc.file_name[2], url |-> doc.url[2],
     title |-> doc.title[2], description |-> doc.description[2],
     author |-> doc.author[2], length |-> doc.length[2],
     date |-> fromisoformat(doc.date[2]),
     keywords |-> [k \in 1 .. Len(doc.keywords[2]) |-> doc.keywords[2][k][2]],
     channel_url |-> doc.channel_url[2], metadata |-> doc.metadata[2]]

(* lines 152-169: the file save_video_metadata writes *)
SavedMetadata(yt, video_id) ==
    MetaFile(model_dump_json(VideoMetadataModel(yt, video_id)))

VARIABLES
    stop_requested,        \* self._stop_requested
    current_channel_dir,   \* self.current_channel_dir
    cwd,                   \* the process working directory
    fs,                    \* the file system
    main,                  \* the calling thread: its operation and locals
    job,                   \* the download_video call of each URL of the batch
    ops,                   \* top-level calls made so far
    max_threads            \* self.max_threads

vars == <<stop_requested, current_channel_dir, cwd, fs, main, job, ops,
          max_threads>>

(* ---- the provider ---- *)
(* an item of a search page: a video with its id, or another kind *)
VideoItem(v) == [kind |-> "youtube#video", videoId |-> v]
OtherItem == [kind |-> "youtube#channel", videoId |-> ""]
PageSet == {<<>>, <<OtherItem>>} \cup {<<VideoItem(v)>> : v \in VideoIds}
MaxUrls == MaxPages         \* a page of PageSet holds at most one video

(* a page reading that takes every item for a video *)
PageUrlsAnyKind(items) == [k \in 1 .. Len(items) |-> WatchUrl(items[k].videoId)]

(* the URLs get_video_urls appends for one page (lines 122-126) *)
RECURSIVE PageUrls(_)
PageUrls(items) ==
    IF items = <<>> THEN <<>>
    ELSE (IF Head(items).kind = "youtube#video"
          THEN <<WatchUrl(Head(items).videoId)>> ELSE <<>>)
         \o PageUrls(Tail(items))

(* ---- file system steps ---- *)
NoStream == -1              \* stream is None
NoFd == <<"nofd">>
Unlinked == <<"unlinked">>

(* a removal that leaves the file *)
RemoveNothing(f, p) == f

Remove(f, p) == [f EXCEPT ![p] = NoFile]
Replace(f, src, dst) == [f EXCEPT ![dst] = f[src], ![src] = NoFile]
OpenTruncate(f, p) == [f EXCEPT ![p] = VideoFile({})]
WriteChunk(f, fd, k) ==
    IF fd \in Paths THEN [f EXCEPT ![fd] = VideoFile(f[fd].data \cup {k})] ELSE f

(* where an open descriptor points after a name is removed or replaced *)
FdAfterRemove(fd, p) == IF fd = p THEN Unlinked ELSE fd
FdAfterReplace(fd, src, dst) ==
    IF fd = dst THEN Unlinked ELSE IF fd = src THEN dst ELSE fd

(* ---- threads ---- *)
JobIds == 1 .. MaxUrls

NoJob ==
    [pc |-> "none", url |-> <<>>, video_id |-> <<>>, output_dir |-> None,
     original_dir |-> None, stream |-> NoStream, fd |-> NoFd, offset |-> 0,
     result |-> None,
     afterStop |-> FALSE, finalAtEntry |-> FALSE, opened |-> FALSE,
     streamed |-> FALSE, touched |-> FALSE, stoppedMid |-> FALSE,
     promoted |-> FALSE, metaFailed |-> FALSE, noStream |-> FALSE,
     metaRewritten |-> FALSE, target_path |-> NoTarget,
     cleaned |-> FALSE, cleanupFailed |-> FALSE, completeAtEntry |-> FALSE]

PendingJob(url) == [NoJob EXCEPT !.pc = "pending", !.url = url]

IdleMain ==
    [pc |-> "idle", op |-> None, force_refresh |-> FALSE, video_urls |-> <<>>,
     page_count |-> 0, pages |-> <<>>, cached |-> FALSE, ret |-> <<>>,
     error |-> FALSE, fetched |-> FALSE, cacheAtEntry |-> NoFile,
     stopAtEntry |-> FALSE, stopAtPool |-> FALSE, staleTemps |-> {},
     args |-> <<>>, walkStopped |-> FALSE,
     fetches |-> 0, saves |-> 0, reads |-> 0, depth |-> 0]

(* a caller that starts an operation while another one is running *)
TopLevelAlways == TRUE

TopLevel == main.pc \in {"idle", "returned", "raised"}

Init ==
    /\ stop_requested = FALSE
    /\ current_channel_dir = None
    /\ cwd = OrigDir
    /\ fs = [p \in Paths |-> NoFile]
    /\ main = IdleMain
    /\ job = [i \in JobIds |-> NoJob]
    /\ ops = 0
    /\ max_threads \in 1 .. MaxThreads

(* ---- stop (lines 338-340) ---- *)
InTransfer(j) == j.pc = "dv_write" /\ j.offset < j.stream

Stop ==
    /\ ~stop_requested
    /\ stop_requested' = TRUE
    /\ job' = [i \in JobIds |->
                 IF InTransfer(job[i]) THEN [job[i] EXCEPT !.stoppedMid = TRUE]
                 ELSE job[i]]
    /\ UNCHANGED <<current_channel_dir, cwd, fs, main, ops, max_threads>>

(* ---- get_video_urls (lines 87-144) ---- *)
is_video_downloaded(f, ccd, url) ==
    /\ Exists(f, get_video_path(ccd, get_video_id(url)))
    /\ Size(f, get_video_path(ccd, get_video_id(url))) > 0

CallGetVideoUrls(force) ==
    /\ TopLevel
    /\ ops < MaxOps
    /\ ops' = ops + 1
    /\ main' = [IdleMain EXCEPT !.pc = "gvu_enter", !.op = "get_video_urls",
                                !.force_refresh = force,
                                !.cacheAtEntry = fs[get_video_list_file],
                                !.stopAtEntry = stop_requested]
    /\ job' = [i \in JobIds |-> NoJob]
    /\ UNCHANGED <<stop_requested, current_channel_dir, cwd, fs, max_threads>>

(* the videos with a temporary file in directory d *)
TempsIn(f, d) == {v \in IdSeqs : Exists(f, <<d, temp_filename(v)>>)}

(* what the caller does with the list get_video_urls returned:            *)
(* download_channel hands every URL to the executor (lines 347-353)       *)
GvuReturns(urls, cached) ==
    IF main.op = "download_channel"
    THEN /\ main' = [main EXCEPT !.pc = "dc_pool", !.video_urls = urls,
                                 !.cached = cached, !.page_count = 0,
                                 !.pages = <<>>, !.cacheAtEntry = NoFile,
                                 !.stopAtPool = stop_requested,
                                 !.walkStopped = FALSE,
                                 !.staleTemps = TempsIn(fs, ChannelDir)]
         /\ job' = [i \in JobIds |->
                      IF i <= Len(urls) THEN PendingJob(urls[i]) ELSE NoJob]
    ELSE /\ main' = [main EXCEPT !.pc = "returned", !.ret = urls,
                                 !.cached = cached,
                                 !.cacheAtEntry = fs[get_video_list_file]]
         /\ UNCHANGED job

(* a cache test that never finds the file *)
UseCacheNever(force_refresh, f) == FALSE

(* a cache test that forgets force_refresh *)
UseCacheAlways(force_refresh, f) == Exists(f, get_video_list_file)

UseCache(force_refresh, f) == ~force_refresh /\ Exists(f, get_video_list_file)

(* lines 90-98 *)
GvuEnter ==
    /\ main.pc = "gvu_enter"
    /\ current_channel_dir' = ChannelDir
    /\ IF UseCache(main.force_refresh, fs)
       THEN GvuReturns(fs[get_video_list_file].urls, TRUE)
       ELSE /\ main' = [main EXCEPT !.pc = "gvu_channel_id"]
            /\ UNCHANGED job
    /\ UNCHANGED <<stop_requested, cwd, fs, ops, max_threads>>

(* a provider error: nothing in get_video_urls catches the exception, it *)
(* leaves the call                                                       *)
GvuRaise == main' = [main EXCEPT !.pc = "raised", !.error = TRUE,
                                 !.fetched = TRUE]

(* lines 100-107: get_channel_id raises when the channel is not found *)
GvuChannelId ==
    /\ main.pc = "gvu_channel_id"
    /\ \/ main' = [main EXCEPT !.pc = "gvu_loop", !.fetched = TRUE]
       \/ GvuRaise
    /\ UNCHANGED <<stop_requested, current_channel_dir, cwd, fs, job, ops, max_threads>>

(* lines 109-132: one turn of the while loop; the listing may hold more *)
(* pages than MaxPages, of which at most MaxPages are fetched           *)
GvuLoop ==
    /\ main.pc = "gvu_loop"
    /\ IF stop_requested
       THEN main' = [main EXCEPT !.pc = "gvu_save", !.walkStopped = TRUE]
       ELSE \/ \E page \in PageSet, more \in BOOLEAN :
                 /\ main.page_count < MaxPages
                 /\ main' = [main EXCEPT
                       !.page_count = @ + 1,
                       !.pages = Append(@, page),
                       !.video_urls = @ \o PageUrls(page),
                       !.pc = IF more THEN "gvu_loop" ELSE "gvu_save"]
            \/ GvuRaise
    /\ UNCHANGED <<stop_requested, current_channel_dir, cwd, fs, job, ops, max_threads>>

(* lines 134-144 *)
GvuSave ==
    /\ main.pc = "gvu_save"
    /\ fs' = [fs EXCEPT ![get_video_list_file] = ListFile(main.video_urls)]
    /\ GvuReturns(main.video_urls, FALSE)
    /\ UNCHANGED <<stop_requested, current_channel_dir, cwd, ops, max_threads>>

(* ---- download_channel (lines 342-355) ---- *)
CallDownloadChannel ==
    /\ TopLevel
    /\ ops < MaxOps
    /\ ops' = ops + 1
    /\ stop_requested' = FALSE
    /\ current_channel_dir' = ChannelDir
    /\ main' = [IdleMain EXCEPT !.pc = "gvu_enter", !.op = "download_channel",
                                !.stopAtEntry = stop_requested]
    /\ job' = [i \in JobIds |-> NoJob]
    /\ UNCHANGED <<cwd, fs, max_threads>>

Finished(j) == j.pc \in {"none", "done"}
Running(j) == j.pc \notin {"none", "pending", "done"}

(* a pool that is left only when every job has succeeded *)
PoolJoinedAllSucceeded(jobs) ==
    \A i \in JobIds : jobs[i].pc = "none"
                        \/ (jobs[i].pc = "done" /\ jobs[i].result = "True")

(* a pool that is left without waiting *)
PoolJoinedNoWait(jobs) == TRUE

(* lines 352-353: list(executor.map(...)) and the end of the with block *)
(* wait for every job                                                   *)
PoolJoined(jobs) == \A i \in JobIds : Finished(jobs[i])

(* leaving the with block waits for every job; list() re-raises a job's exception *)
DcReturn ==
    /\ main.pc = "dc_pool"
    /\ PoolJoined(job)
    /\ main' = [main EXCEPT
          !.pc = IF \E i \in JobIds : job[i].result = "raised"
                 THEN "raised" ELSE "returned",
          !.ret = IF \E i \in JobIds : job[i].result = "raised"
                  THEN <<>> ELSE main.video_urls]
    /\ UNCHANGED <<stop_requested, current_channel_dir, cwd, fs, job, ops, max_threads>>

(* ---- download_video (lines 215-294) ---- *)
(* one job's step: the job's new record, the others keep theirs except   *)
(* for open descriptors that follow a removed or replaced name           *)
Fds == Paths \cup {NoFd, Unlinked}

JobStep(i, new, fdmap) ==
    job' = [k \in JobIds |->
              IF k = i THEN new ELSE [job[k] EXCEPT !.fd = fdmap[job[k].fd]]]

SameFd == [fd \in Fds |-> fd]
AfterRemove(p) == [fd \in Fds |-> FdAfterRemove(fd, p)]
AfterReplace(src, dst) == [fd \in Fds |-> FdAfterReplace(fd, src, dst)]

(* the executor starts the next URL of the list when a worker is free; the *)
(* job's first statements run in the same step                             *)
(* a pool that starts a job whatever the number of running ones *)
WorkerFreeAlways(running, workers) == TRUE

(* line 352: ThreadPoolExecutor(max_workers=self.max_threads) *)
WorkerFree(running, workers) == running < workers

Dispatchable(i) ==
    /\ main.pc = "dc_pool"
    /\ job[i].pc = "pending"
    /\ \A k \in JobIds : k < i => job[k].pc # "pending"
    /\ WorkerFree(Cardinality({k \in JobIds : Running(job[k])}), max_threads)

(* a download_video that does not look at the flag *)
StopCheckNever(flag) == FALSE

StopCheck(flag) == flag

(* lines 217-228: the stop check, video id, output directory, getcwd *)
DvEntry(i) ==
    /\ Dispatchable(i)
    /\ IF StopCheck(stop_requested)
       THEN JobStep(i, [job[i] EXCEPT !.pc = "done", !.result = "False",
                                      !.afterStop = TRUE], SameFd)
       ELSE JobStep(i, [job[i] EXCEPT
                !.pc = "dv_chdir",
                !.afterStop = stop_requested,
                !.video_id = get_video_id(job[i].url),
                !.output_dir = BaseDir(current_channel_dir),
                !.original_dir = cwd,
                !.finalAtEntry =
                    is_video_downloaded(fs, current_channel_dir, job[i].url),
                !.completeAtEntry =
                    fs[get_video_path(current_channel_dir,
                                      get_video_id(job[i].url))]
                        = VideoFile(FullData)],
                SameFd)
    /\ UNCHANGED <<stop_requested, current_channel_dir, cwd, fs, main, ops, max_threads>>

(* line 229 *)
DvChdir(i) ==
    /\ job[i].pc = "dv_chdir"
    /\ cwd' = job[i].output_dir
    /\ JobStep(i, [job[i] EXCEPT !.pc = "dv_rmstale"], SameFd)
    /\ UNCHANGED <<stop_requested, current_channel_dir, fs, main, ops, max_threads>>

(* an exception inside the inner try: the finally block runs next *)
Throw(j) == [j EXCEPT !.pc = "dv_finally", !.result = "exc", !.fd = NoFd]

(* os.remove removes the file or raises and leaves it; the error is       *)
(* followed in the single calls of the dialogs, a batch is modelled with  *)
(* removals that succeed                                                  *)
RemoveOutcomes(op) ==
    IF op = "download_channel" THEN {"removed"} ELSE {"removed", "error"}

(* lines 235-237: the temporary name is relative, it resolves against cwd *)
DvRemoveStale(i) ==
    /\ job[i].pc = "dv_rmstale"
    /\ LET p == <<cwd, temp_filename(job[i].video_id)>> IN
       IF Exists(fs, p)
       THEN \E outcome \in RemoveOutcomes(main.op) :
              IF outcome = "removed"
              THEN /\ fs' = Remove(fs, p)
                   /\ JobStep(i, [job[i] EXCEPT !.pc = "dv_open",
                                                !.touched = TRUE],
                              AfterRemove(p))
              ELSE /\ UNCHANGED fs
                   /\ JobStep(i, Throw(job[i]), SameFd)
       ELSE /\ UNCHANGED fs
            /\ JobStep(i, [job[i] EXCEPT !.pc = "dv_open"], SameFd)
    /\ UNCHANGED <<stop_requested, current_channel_dir, cwd, main, ops, max_threads>>

(* lines 240-255: YouTube(url), get_stream_by_resolution and the fallback  *)
(* (the stream found has a size, or no stream is found at all), then        *)
(* save_video_metadata, which raises on a write or validation error; line   *)
(* 255 reads stream.resolution, which raises when stream is None            *)
StreamSizes == {0, NChunks}

(* line 242: settings.value('preferred_resolution', '1080p') *)
PreferredResolution == Label(1080)

(* lines 243-250: the selector, then the provider's highest stream *)
SelectStream(S) ==
    IF get_stream_by_resolution(S, PreferredResolution) # NoLabel
    THEN get_stream_by_resolution(S, PreferredResolution)
    ELSE get_highest_resolution(S)

(* line 240: the handle YouTube(url) gives to a call of operation op; the *)
(* handles save_video_metadata rejects are the MetaFailure branch         *)
VideosSeen(op, video_id) ==
    IF op = "download_channel" THEN BatchVideos(video_id)
    ELSE {yt \in ProviderVideos(video_id) : Validates(yt)}

(* whether a video's streams leave download_video without a stream *)
NoStreamOutcomes == {SelectStream(S) = NoLabel : S \in StreamSets}

MetaFailure(j) == [Throw(j) EXCEPT !.metaFailed = TRUE]

DvOpen(i) ==
    /\ job[i].pc = "dv_open"
    /\ \/ /\ JobStep(i, [Throw(job[i]) EXCEPT !.opened = TRUE], SameFd)
          /\ UNCHANGED fs
       \/ /\ JobStep(i, [MetaFailure(job[i]) EXCEPT !.opened = TRUE], SameFd)
          /\ UNCHANGED fs
       \/ \E yt \in VideosSeen(main.op, job[i].video_id),
             none \in NoStreamOutcomes, size \in StreamSizes :
            LET p == get_metadata_path(current_channel_dir, job[i].video_id)
                rewritten == /\ Exists(fs, p)
                             /\ fs[p] # SavedMetadata(yt, job[i].video_id)
            IN
            /\ fs' = [fs EXCEPT ![p] = SavedMetadata(yt, job[i].video_id)]
            /\ JobStep(i, IF none
                          THEN [Throw(job[i]) EXCEPT !.opened = TRUE,
                                                     !.touched = TRUE,
                                                     !.noStream = TRUE,
                                                     !.metaRewritten = rewritten]
                          ELSE [job[i] EXCEPT !.pc = "dv_download",
                                              !.opened = TRUE, !.stream = size,
                                              !.touched = TRUE,
                                              !.metaRewritten = rewritten],
                       SameFd)
    /\ UNCHANGED <<stop_requested, current_channel_dir, cwd, main, ops, max_threads>>

(* line 258: stream.download opens <cwd>/<temp name> for writing *)
DvDownload(i) ==
    /\ job[i].pc = "dv_download"
    /\ LET p == <<cwd, temp_filename(job[i].video_id)>> IN
       /\ fs' = OpenTruncate(fs, p)
       /\ JobStep(i, [job[i] EXCEPT !.pc = "dv_write", !.fd = p, !.offset = 0,
                                    !.streamed = TRUE, !.touched = TRUE],
                  SameFd)
    /\ UNCHANGED <<stop_requested, current_channel_dir, cwd, main, ops, max_threads>>

(* the transfer of one chunk, or a network error.  YouTube(url) at line 240 *)
(* registers no progress callback: the transfer does not read the stop flag *)
DvWrite(i) ==
    /\ job[i].pc = "dv_write"
    /\ job[i].offset < job[i].stream
    /\ \/ /\ fs' = WriteChunk(fs, job[i].fd, job[i].offset + 1)
          /\ JobStep(i, [job[i] EXCEPT !.offset = @ + 1], SameFd)
       \/ /\ JobStep(i, Throw(job[i]), SameFd)
          /\ UNCHANGED fs
    /\ UNCHANGED <<stop_requested, current_channel_dir, cwd, main, ops, max_threads>>

(* lines 191-213: rename_video_files moves the video and then the metadata  *)
(* file if they exist; an error of os.rename ends it (it returns False):   *)
(* failed names the rename that raised                                     *)
RenameOutcomes == {"none", "video", "meta"}

rename_video_files(f, ccd, video_id, new_path, failed) ==
    LET video == get_video_path(ccd, video_id)
        meta == get_metadata_path(ccd, video_id)
        f1 == IF Exists(f, video) /\ failed # "video"
              THEN Replace(f, video, new_path) ELSE f
    IN  IF failed = "video" /\ Exists(f, video) THEN f
        ELSE IF Exists(f1, meta) /\ failed # "meta"
             THEN Replace(f1, meta, new_meta_path(new_path)) ELSE f1

(* the open descriptors after the two renames *)
AfterRenames(f, ccd, video_id, new_path, failed) ==
    [fd \in Fds |->
        IF Exists(f, get_video_path(ccd, video_id)) /\ failed # "video"
        THEN FdAfterReplace(fd, get_video_path(ccd, video_id), new_path)
        ELSE fd]

(* lines 261-276: the transfer is over; check the temporary file and promote it *)
DvVerify(i) ==
    /\ job[i].pc = "dv_write"
    /\ job[i].offset = job[i].stream
    /\ LET src == <<cwd, temp_filename(job[i].video_id)>>
           dst == <<cwd, final_filename(job[i].video_id)>>
       IN  IF Exists(fs, src) /\ Size(fs, src) > 0
           THEN \E failed \in RenameOutcomes :
                /\ job[i].target_path = NoTarget => failed = "none"
                /\ fs' = IF job[i].target_path = NoTarget
                         THEN Replace(fs, src, dst)
                         ELSE rename_video_files(Replace(fs, src, dst),
                                  current_channel_dir, job[i].video_id,
                                  job[i].target_path, failed)
                /\ JobStep(i, [job[i] EXCEPT !.pc = "dv_finally", !.fd = NoFd,
                                             !.result = "True", !.promoted = TRUE],
                           IF job[i].target_path = NoTarget
                           THEN AfterReplace(src, dst)
                           ELSE [fd \in Fds |->
                                   AfterRenames(Replace(fs, src, dst),
                                       current_channel_dir, job[i].video_id,
                                       job[i].target_path, failed)
                                     [AfterReplace(src, dst)[fd]]])
           ELSE /\ UNCHANGED fs
                /\ JobStep(i, [job[i] EXCEPT !.pc = "dv_finally", !.fd = NoFd,
                                             !.result = "False"], SameFd)
    /\ UNCHANGED <<stop_requested, current_channel_dir, cwd, main, ops, max_threads>>

(* a handler that lets the exception leave download_video *)
DvExceptReraise(r) == IF r = "exc" THEN "raised" ELSE r

(* lines 290-294: the outer handler turns an exception into False *)
DvExcept(r) == IF r = "exc" THEN "False" ELSE r

(* lines 278-288: remove <cwd>/<temp name> if it exists, restore the        *)
(* directory; then the call returns.  Of a returned call the model keeps    *)
(* the result and whether it was stopped at entry (afterStop), found no     *)
(* stream (noStream) or promoted a file; the other fields describe a call   *)
(* in progress                                                              *)
Returned(j) ==
    [NoJob EXCEPT !.pc = "done", !.url = j.url, !.result = DvExcept(j.result),
                  !.afterStop = j.afterStop, !.promoted = j.promoted,
                  !.noStream = j.noStream, !.target_path = j.target_path]

(* lines 280-285: an error of os.remove is reported through the callback *)
(* and the finally block goes on                                          *)
DvFinally(i) ==
    /\ job[i].pc = "dv_finally"
    /\ LET p == <<cwd, temp_filename(job[i].video_id)>> IN
       IF Exists(fs, p)
       THEN \E outcome \in RemoveOutcomes(main.op) :
              IF outcome = "removed"
              THEN /\ fs' = Remove(fs, p)
                   /\ JobStep(i, [Returned(job[i]) EXCEPT !.cleaned = TRUE],
                              AfterRemove(p))
              ELSE /\ UNCHANGED fs
                   /\ JobStep(i, [Returned(job[i]) EXCEPT
                                     !.cleanupFailed = TRUE], SameFd)
       ELSE /\ UNCHANGED fs
            /\ JobStep(i, Returned(job[i]), SameFd)
    /\ cwd' = job[i].original_dir
    /\ UNCHANGED <<stop_requested, current_channel_dir, main, ops, max_threads>>

(* ---- the process dies and is started again: memory is lost, files stay ---- *)
Crash ==
    /\ ~TopLevel
    /\ stop_requested' = FALSE
    /\ current_channel_dir' = None
    /\ cwd' = OrigDir
    /\ main' = IdleMain
    /\ job' = [i \in JobIds |-> NoJob]
    /\ UNCHANGED <<fs, ops, max_threads>>

Next ==
    \/ Stop
    \/ \E force \in BOOLEAN : CallGetVideoUrls(force)
    \/ GvuEnter
    \/ GvuChannelId
    \/ GvuLoop
    \/ GvuSave
    \/ CallDownloadChannel
    \/ DcReturn
    \/ \E i \in JobIds : DvEntry(i)
    \/ \E i \in JobIds : DvChdir(i)
    \/ \E i \in JobIds : DvRemoveStale(i)
    \/ \E i \in JobIds : DvOpen(i)
    \/ \E i \in JobIds : DvDownload(i)
    \/ \E i \in JobIds : DvWrite(i)
    \/ \E i \in JobIds : DvVerify(i)
    \/ \E i \in JobIds : DvFinally(i)
    \/ Crash

Spec == Init /\ [][Next]_vars

(* the catalog alone: get_video_urls, stop and a restart of the process *)
NextCatalog ==
    \/ Stop
    \/ \E force \in BOOLEAN : CallGetVideoUrls(force)
    \/ GvuEnter
    \/ GvuChannelId
    \/ GvuLoop
    \/ GvuSave
    \/ Crash

SpecCatalog == Init /\ [][NextCatalog]_vars

(* download_channel batches of a process that stays alive: the main thread *)
(* and every worker thread of the pool keep being scheduled, and every     *)
(* provider call and every chunk of a transfer ends (by a result or by an  *)
(* exception)                                                              *)
NextBatch ==
    \/ Stop
    \/ GvuEnter
    \/ GvuChannelId
    \/ GvuLoop
    \/ GvuSave
    \/ CallDownloadChannel
    \/ DcReturn
    \/ \E i \in JobIds : DvEntry(i)
    \/ \E i \in JobIds : DvChdir(i)
    \/ \E i \in JobIds : DvRemoveStale(i)
    \/ \E i \in JobIds : DvOpen(i)
    \/ \E i \in JobIds : DvDownload(i)
    \/ \E i \in JobIds : DvWrite(i)
    \/ \E i \in JobIds : DvVerify(i)
    \/ \E i \in JobIds : DvFinally(i)

Scheduled ==
    /\ WF_vars(GvuEnter) /\ WF_vars(GvuChannelId) /\ WF_vars(GvuLoop)
    /\ WF_vars(GvuSave) /\ WF_vars(DcReturn)
    /\ \A i \in JobIds :
          /\ WF_vars(DvEntry(i)) /\ WF_vars(DvChdir(i))
          /\ WF_vars(DvRemoveStale(i)) /\ WF_vars(DvOpen(i))
          /\ WF_vars(DvDownload(i)) /\ WF_vars(DvWrite(i))
          /\ WF_vars(DvVerify(i)) /\ WF_vars(DvFinally(i))

(* one batch in a behaviour: the operation it starts is the last one *)
InitBatch ==
    /\ stop_requested = FALSE
    /\ current_channel_dir = None
    /\ cwd = OrigDir
    /\ fs = [p \in Paths |-> NoFile]
    /\ main = IdleMain
    /\ job = [i \in JobIds |-> NoJob]
    /\ ops = MaxOps - 1
    /\ max_threads \in 1 .. MaxThreads

SpecBatch == InitBatch /\ [][NextBatch]_vars /\ Scheduled

(* ---- get_video_metadata (lines 171-183) ---- *)
CallGetVideoMetadata(url, force) ==
    /\ TopLevel
    /\ ops < MaxOps
    /\ ops' = ops + 1
    /\ main' = [IdleMain EXCEPT
          !.pc = "gvm_enter", !.op = "get_video_metadata",
          !.force_refresh = force, !.args = <<url>>,
          !.cacheAtEntry = fs[get_metadata_path(current_channel_dir,
                                                get_video_id(url))]]
    /\ job' = [i \in JobIds |-> NoJob]
    /\ UNCHANGED <<stop_requested, current_channel_dir, cwd, fs, max_threads>>

(* a cache test that never finds the file *)
MetaCachedNever(force_refresh, f, p) == FALSE

(* line 176 *)
MetaCached(force_refresh, f, p) == ~force_refresh /\ Exists(f, p)

(* lines 173-178; the call at line 183 enters here again, without         *)
(* force_refresh, one level deeper; fetches, saves, reads and depth count  *)
(* the YouTube(url) calls, the save_video_metadata calls that wrote the    *)
(* file, the reads of the file and the nested calls                        *)
GvmEnter ==
    /\ main.pc \in {"gvm_enter", "gvm_reread"}
    /\ LET p == get_metadata_path(current_channel_dir, get_video_id(main.args[1]))
           force == main.pc = "gvm_enter" /\ main.force_refresh
       IN  IF MetaCached(force, fs, p)
           THEN main' = [main EXCEPT !.pc = "returned",
                                     !.ret = model_validate_json(fs[p].doc),
                                     !.cached = ~main.fetched,
                                     !.reads = @ + 1,
                                     !.depth = IF main.pc = "gvm_reread"
                                               THEN @ + 1 ELSE @]
           ELSE main' = [main EXCEPT !.pc = "gvm_fetch",
                                     !.depth = IF main.pc = "gvm_reread"
                                               THEN @ + 1 ELSE @]
    /\ UNCHANGED <<stop_requested, current_channel_dir, cwd, fs, job, ops,
                   max_threads>>

(* lines 181-182: YouTube(url) and save_video_metadata; either can raise *)
GvmFetch ==
    /\ main.pc = "gvm_fetch"
    /\ main.fetches < MaxFetches
    /\ \/ /\ main' = [main EXCEPT !.pc = "raised", !.error = TRUE,
                                   !.fetched = TRUE, !.fetches = @ + 1]
          /\ UNCHANGED fs
       \/ \E yt \in ProviderVideos(get_video_id(main.args[1])) :
            IF Validates(yt)
            THEN /\ fs' = [fs EXCEPT
                       ![get_metadata_path(current_channel_dir,
                                           get_video_id(main.args[1]))]
                           = SavedMetadata(yt, get_video_id(main.args[1]))]
                 /\ main' = [main EXCEPT !.pc = "gvm_reread", !.fetched = TRUE,
                                         !.fetches = @ + 1, !.saves = @ + 1]
            ELSE /\ main' = [main EXCEPT !.pc = "raised", !.error = TRUE,
                                         !.fetched = TRUE, !.fetches = @ + 1]
                 /\ UNCHANGED fs
    /\ UNCHANGED <<stop_requested, current_channel_dir, cwd, job, ops,
                   max_threads>>

(* ---- one download_video call made by a dialog: download_selected_video *)
(* (download_dialog.py) without target_path, SingleVideoDownloadDialog     *)
(* (single_video_download_dialog.py) with the path to save the video as    *)
CallDownloadVideo(url, target_path) ==
    /\ TopLevel
    /\ ops < MaxOps
    /\ ops' = ops + 1
    /\ main' = [IdleMain EXCEPT !.pc = "dc_pool", !.op = "download_video",
                                !.video_urls = <<url>>]
    /\ job' = [i \in JobIds |->
                 IF i = 1 THEN [PendingJob(url) EXCEPT !.target_path = target_path]
                 ELSE NoJob]
    /\ UNCHANGED <<stop_requested, current_channel_dir, cwd, fs, max_threads>>

DvReturn ==
    /\ main.op = "download_video"
    /\ main.pc = "dc_pool"
    /\ job[1].pc = "done"
    /\ main' = [main EXCEPT !.pc = "returned", !.ret = job[1].result]
    /\ UNCHANGED <<stop_requested, current_channel_dir, cwd, fs, job, ops,
                   max_threads>>

(* a downloader in which no call is in progress: its channel context is ccd *)
(* and its calling thread is m                                              *)
Fresh(m, ccd) ==
    /\ stop_requested = FALSE
    /\ current_channel_dir = ccd
    /\ cwd = OrigDir
    /\ fs = [p \in Paths |-> NoFile]
    /\ main = m
    /\ job = [i \in JobIds |-> NoJob]
    /\ ops = 0
    /\ max_threads = MaxThreads

(* the metadata cache and the single download of the dialog *)
InitMetadata == \E ccd \in {None, ChannelDir} : Fresh(IdleMain, ccd)

NextMetadata ==
    \/ \E v \in VideoIds, force \in BOOLEAN :
           CallGetVideoMetadata(WatchUrl(v), force)
    \/ GvmEnter
    \/ GvmFetch
    \/ \E v \in VideoIds, target_path \in TargetPaths \cup {NoTarget} :
           CallDownloadVideo(WatchUrl(v), target_path)
    \/ \E i \in JobIds : DvEntry(i)
    \/ \E i \in JobIds : DvChdir(i)
    \/ \E i \in JobIds : DvRemoveStale(i)
    \/ \E i \in JobIds : DvOpen(i)
    \/ \E i \in JobIds : DvDownload(i)
    \/ \E i \in JobIds : DvWrite(i)
    \/ \E i \in JobIds : DvVerify(i)
    \/ \E i \in JobIds : DvFinally(i)
    \/ DvReturn

SpecMetadata == InitMetadata /\ [][NextMetadata]_vars

(* ---- pure functions: the calling thread applies one to its arguments ---- *)
Call(op, args) == [IdleMain EXCEPT !.pc = "call", !.op = op, !.args = args]

Return(value) ==
    /\ main' = [main EXCEPT !.pc = "returned", !.ret = value]
    /\ UNCHANGED <<stop_requested, current_channel_dir, cwd, fs, job, ops,
                   max_threads>>

(* the Resolution Selector *)
InitSelector ==
    \E S \in StreamSets, preferred \in Labels :
        Fresh(Call("get_stream_by_resolution", <<S, preferred>>), None)

ApplySelector ==
    /\ main.pc = "call"
    /\ main.op = "get_stream_by_resolution"
    /\ Return(get_stream_by_resolution(main.args[1], main.args[2]))

SpecSelector == InitSelector /\ [][ApplySelector]_vars

(* the Path Resolver: identifiers of up to MaxIdLen parts *)
IdParts == {"a", "b", ".downloading", ".mp4", ".json"}
AnyIds == UNION {[1 .. n -> IdParts] : n \in 0 .. MaxIdLen}

InitPaths ==
    \E video_id \in AnyIds, ccd \in {None, ChannelDir} :
        Fresh(Call("paths", <<video_id>>), ccd)

ApplyPaths ==
    /\ main.pc = "call"
    /\ main.op = "paths"
    /\ Return(<<get_video_path(current_channel_dir, main.args[1]),
                get_temp_video_path(current_channel_dir, main.args[1]),
                get_metadata_path(current_channel_dir, main.args[1])>>)

SpecPaths == InitPaths /\ [][ApplyPaths]_vars

(* get_video_id on watch URLs: the v parameter first, as the enumerator *)
(* builds them, or after another parameter                               *)
UrlIds == {"a", "b", "ab"}
UrlTails == {<<>>, <<"&", "t=1">>, <<"&", "list=x", "&", "t=1">>}
WatchUrlWith(v, tail) == WatchUrl(v) \o tail
WatchUrlListFirst(v) ==
    <<"https:", "/", "/", "www.youtube.com", "/", "watch?", "list=x", "&",
      "v=", v>>
WatchForms ==
    {[v |-> v, url |-> WatchUrlWith(v, tail)] : v \in UrlIds, tail \in UrlTails}
    \cup {[v |-> v, url |-> WatchUrlListFirst(v)] : v \in UrlIds}

InitUrls ==
    \E x \in WatchForms, y \in WatchForms :
        Fresh(Call("get_video_id", <<x, y>>), None)

ApplyGetVideoId ==
    /\ main.pc = "call"
    /\ main.op = "get_video_id"
    /\ Return(<<get_video_id(main.args[1].url), get_video_id(main.args[2].url)>>)

SpecUrls == InitUrls /\ [][ApplyGetVideoId]_vars

TypeOK ==
    /\ stop_requested \in BOOLEAN
    /\ current_channel_dir \in {None, ChannelDir}
    /\ cwd \in Dirs
    /\ ops \in 0 .. MaxOps
    /\ \A i \in JobIds : job[i].fd \in Fds

(* ======================= the claims ======================= *)

(* C1: in every reachable state the final file <video_id>.mp4 of a video is *)
(* absent or fully written and non-empty; an empty or partial file exists   *)
(* only under the temporary name                                            *)
C1_FinalAbsentOrComplete ==
    \A d \in Dirs, v \in IdSeqs :
        Exists(fs, <<d, final_filename(v)>>)
            => fs[<<d, final_filename(v)>>].data = FullData

Batch == main.op = "download_channel"
BatchReturned == Batch /\ main.pc = "returned"

(* C2: when the final file already exists and is non-empty, download_video *)
(* returns success and does not invoke the provider's stream download      *)
C2_IdempotentSkip ==
    \A i \in JobIds :
        job[i].finalAtEntry
            => ~job[i].streamed /\ job[i].result \notin {"False", "exc"}

(* C3: after download_channel has returned, the batch has left no         *)
(* *.downloading.mp4 file in the channel directory (a file that was there *)
(* before the batch dispatched its first job is not counted)              *)
C3_NoTempAfterBatch ==
    BatchReturned => TempsIn(fs, ChannelDir) \subseteq main.staleTemps

(* C4 as stated: a stop flag set before download_channel starts makes the *)
(* batch download nothing: no stream download, no final file              *)
C4_StopBeforeBatch ==
    (Batch /\ main.stopAtEntry)
        => \A i \in JobIds : ~job[i].streamed /\ ~job[i].promoted

(* C4 amended: download_channel clears the flag at its entry; if the flag *)
(* is set when download_channel hands the URLs to the pool (stop() came    *)
(* after the entry, while the list was obtained), the batch downloads      *)
(* nothing: every job returns False, no stream download is invoked and no  *)
(* final file is created                                                   *)
C4_StopBeforeDispatch ==
    (Batch /\ main.stopAtPool)
        => \A i \in JobIds :
              /\ ~job[i].streamed /\ ~job[i].promoted
              /\ job[i].pc \in {"none", "pending", "done"}
              /\ job[i].pc = "done" => job[i].result = "False"

C4_Witness ==
    /\ BatchReturned
    /\ main.stopAtEntry
    /\ main.stopAtPool
    /\ \A i \in JobIds : job[i].pc = "done"

(* C5: a job whose download_video call begins after the stop flag was set *)
(* returns False without opening the provider, streaming or touching a    *)
(* file; only jobs begun before can produce a final file                  *)
C5_BegunAfterStop ==
    \A i \in JobIds :
        job[i].afterStop
            => /\ job[i].pc = "done" /\ job[i].result = "False"
               /\ ~job[i].opened /\ ~job[i].streamed
               /\ ~job[i].touched /\ ~job[i].promoted

C5_Witness ==
    /\ Batch
    /\ ~main.stopAtEntry
    /\ \E i, k \in JobIds :
          /\ i < k
          /\ job[i].promoted /\ ~job[i].afterStop /\ job[i].pc = "done"
          /\ job[k].afterStop /\ job[k].pc = "done"

(* C6: a stop() called while a job is streaming aborts that transfer: the *)
(* job returns failure and its video is not promoted                      *)
C6_StopAbortsTransfer ==
    \A i \in JobIds :
        job[i].stoppedMid => ~job[i].promoted /\ job[i].result # "True"

(* C7: download_video never raises, every error ends in a returned False, *)
(* and download_channel attempts every URL of the list                    *)
C7_FailureNeverAbortsBatch ==
    /\ \A i \in JobIds : job[i].result # "raised"
    /\ Batch => main.pc # "raised" \/ main.error
    /\ BatchReturned
         => /\ main.ret = main.video_urls
            /\ \A i \in JobIds :
                  IF i <= Len(main.video_urls)
                  THEN /\ job[i].pc = "done"
                       /\ job[i].url = main.video_urls[i]
                       /\ job[i].result \in {"True", "False"}
                  ELSE job[i].pc = "none"

C7_Witness ==
    /\ BatchReturned
    /\ job[1].result = "False" /\ ~job[1].afterStop
    /\ job[2].result = "True"

(* C8: a failure to persist the metadata does not abort the download: the *)
(* stream is still transferred                                            *)
C8_MetadataFailureNotFatal ==
    \A i \in JobIds :
        (job[i].metaFailed /\ job[i].pc = "dv_finally") => job[i].streamed

(* C9: a provider error after at least one collected page still writes the *)
(* video-list file with the URLs so far and returns that list              *)
C9_PartialListPersisted ==
    (main.error /\ main.page_count >= 1 /\ main.video_urls # <<>>)
        => /\ main.pc = "returned"
           /\ main.ret = main.video_urls
           /\ fs[get_video_list_file] = ListFile(main.video_urls)

(* the URLs of the video items of a sequence of pages, in listing order *)
RECURSIVE Discovered(_)
Discovered(pages) ==
    IF pages = <<>> THEN <<>>
    ELSE LET vids == SelectSeq(Head(pages), LAMBDA it : it.kind = "youtube#video")
         IN  [k \in 1 .. Len(vids) |-> WatchUrl(vids[k].videoId)]
             \o Discovered(Tail(pages))

(* C10: get_video_urls(channel, force_refresh=True) never returns the cache: *)
(* it returns the list it has just enumerated and the video-list file holds  *)
(* that list                                                                 *)
C10_ForceRefreshBypassesCache ==
    (main.op = "get_video_urls" /\ main.force_refresh /\ main.pc = "returned")
        => /\ ~main.cached
           /\ main.ret = Discovered(main.pages)
           /\ fs[get_video_list_file] = ListFile(main.ret)

C10_Witness ==
    /\ main.op = "get_video_urls" /\ main.force_refresh /\ main.pc = "returned"
    /\ main.cacheAtEntry # NoFile
    /\ main.cacheAtEntry.urls # <<>>
    /\ main.cacheAtEntry.urls # main.ret

(* C11: get_video_urls without force_refresh, with a video-list file on    *)
(* disk, returns the urls sequence stored in the file, in the same order,   *)
(* calls the provider not at all and leaves the file as it was              *)
C11_CacheReadVerbatim ==
    (main.op = "get_video_urls" /\ ~main.force_refresh
        /\ main.pc = "returned" /\ main.cacheAtEntry # NoFile)
        => /\ main.cached
           /\ main.ret = main.cacheAtEntry.urls
           /\ ~main.fetched /\ main.page_count = 0 /\ main.pages = <<>>
           /\ fs[get_video_list_file] = main.cacheAtEntry

C11_Witness ==
    /\ main.op = "get_video_urls" /\ ~main.force_refresh
    /\ main.pc = "returned" /\ main.cached
    /\ Len(main.ret) = 2 /\ main.ret[1] # main.ret[2]

SelectorReturned == main.op = "get_stream_by_resolution" /\ main.pc = "returned"
Offered == main.args[1]
Preferred == main.args[2]
AtMostPreferred == {st \in Offered : ResolutionOf(st) <= ResolutionOf(Preferred)}

(* C12: for a non-empty set of progressive streams the Resolution Selector *)
(* returns the stream with the preferred label if there is one, else the   *)
(* highest stream at or below the preferred value, else the highest stream *)
(* of all; {360p,480p,720p} gives 720p for 1080p and 480p for 480p, and    *)
(* {144p} gives 144p for 1080p                                             *)
C12_SelectorChoice ==
    (SelectorReturned /\ Offered # {})
        => /\ main.ret \in Offered
           /\ Preferred \in Offered => main.ret = Preferred
           /\ (Preferred \notin Offered /\ AtMostPreferred # {})
                 => /\ main.ret \in AtMostPreferred
                    /\ \A st \in AtMostPreferred :
                          ResolutionOf(st) <= ResolutionOf(main.ret)
           /\ (Preferred \notin Offered /\ AtMostPreferred = {})
                 => \A st \in Offered : ResolutionOf(st) <= ResolutionOf(main.ret)
           /\ (Offered = {Label(360), Label(480), Label(720)}
                 /\ Preferred = Label(1080)) => main.ret = Label(720)
           /\ (Offered = {Label(360), Label(480), Label(720)}
                 /\ Preferred = Label(480)) => main.ret = Label(480)
           /\ (Offered = {Label(144)} /\ Preferred = Label(1080))
                 => main.ret = Label(144)

C12_Witness ==
    /\ SelectorReturned
    /\ Offered = {Label(144), Label(360), Label(1080)}
    /\ Preferred = Label(720)
    /\ main.ret = Label(360)

(* C13: the stream the Resolution Selector returns is above the preferred *)
(* resolution only when no offered stream is at or below it               *)
C13_PreferenceIsCeiling ==
    (SelectorReturned /\ Offered # {}
        /\ ResolutionOf(main.ret) > ResolutionOf(Preferred))
        => AtMostPreferred = {}

C13_Witness ==
    /\ SelectorReturned
    /\ Offered = {Label(480), Label(720)}
    /\ Preferred = Label(360)
    /\ main.ret = Label(720)

MetaReturned == main.op = "get_video_metadata" /\ main.pc = "returned"
MetaPathOfCall ==
    get_metadata_path(current_channel_dir, get_video_id(main.args[1]))
SavedModels ==
    {VideoMetadataModel(yt, v) :
        yt \in UNION {ProviderVideos(w) : w \in IdSeqs}, v \in IdSeqs}

C16_MetadataImmutable ==
    \A i \in JobIds : ~job[i].metaRewritten

PathsReturned == main.op = "paths" /\ main.pc = "returned"

(* C17: for every video identifier and channel context (none included)  *)
(* video_path, temp_video_path and metadata_path are three different     *)
(* paths                                                                 *)
C17_PathsDistinct ==
    PathsReturned
        => /\ main.ret[1] # main.ret[2]
           /\ main.ret[1] # main.ret[3]
           /\ main.ret[2] # main.ret[3]

C17_Witness ==
    /\ PathsReturned
    /\ current_channel_dir = None
    /\ main.args[1] = <<"a", ".downloading">>

UrlsReturned == main.op = "get_video_id" /\ main.pc = "returned"

(* C18: get_video_id depends on the URL only; two watch URLs with       *)
(* different v parameters get different identifiers, and the watch URL    *)
(* the enumerator builds from a video id gets that id                     *)
C18_VideoIdInjective ==
    UrlsReturned
        => /\ main.args[1].v # main.args[2].v => main.ret[1] # main.ret[2]
           /\ main.args[1].url = main.args[2].url => main.ret[1] = main.ret[2]
           /\ \A k \in 1 .. 2 :
                 main.args[k].url = WatchUrl(main.args[k].v)
                    => main.ret[k] = <<main.args[k].v>>

C18_Witness ==
    /\ UrlsReturned
    /\ main.args[1].v # main.args[2].v
    /\ main.args[1].url = WatchUrlWith("a", <<"&", "t=1">>)
    /\ main.args[2].url = WatchUrlListFirst("ab")

(* C19: in a download_channel batch the download_video calls running at *)
(* the same time are never more than max_threads                         *)
C19_PoolBound ==
    Batch => Cardinality({i \in JobIds : Running(job[i])}) <= max_threads

C19_Witness ==
    /\ Batch
    /\ Cardinality({i \in JobIds : Running(job[i])}) = max_threads
    /\ \E i \in JobIds : job[i].pc = "pending"

(* C20: when download_channel returns, the download_video call of every *)
(* URL of the list has finished, and the list returned is the list of    *)
(* the Catalog Cache, in its order                                       *)
C20_ReturnsAfterAllJobs ==
    BatchReturned
        => /\ \A i \in JobIds : Finished(job[i])
           /\ \A i \in 1 .. Len(main.video_urls) :
                 job[i].pc = "done" /\ job[i].url = main.video_urls[i]
           /\ main.ret = main.video_urls
           /\ fs[get_video_list_file] = ListFile(main.ret)

C20_Witness ==
    /\ BatchReturned
    /\ Len(main.ret) = 2
    /\ main.ret[1] # main.ret[2]
    /\ main.cached
    /\ job[1].result = "True" /\ job[2].result = "False"

(* C21: a download_video(url, target_path) call that returns success has *)
(* left the complete, non-empty video at target_path and no file under   *)
(* the default name <video_id>.mp4                                        *)
C21_SuccessMeansAtTarget ==
    \A i \in JobIds :
        (job[i].pc = "done" /\ job[i].result = "True"
            /\ job[i].target_path # NoTarget /\ ~job[i].afterStop)
        => /\ Exists(fs, job[i].target_path)
           /\ fs[job[i].target_path].data = FullData
           /\ ~Exists(fs, get_video_path(current_channel_dir,
                                         get_video_id(job[i].url)))

(* C22: the video-list file is written only after the enumeration walk has *)
(* ended, never while pages are being fetched; a walk ended by the stop    *)
(* flag, like one ended by the end of the listing, leaves in the file the  *)
(* URLs collected so far, in listing order                                 *)
C22_ListWrittenAfterWalk ==
    main.op = "get_video_urls"
        => /\ main.pc \in {"gvu_enter", "gvu_channel_id", "gvu_loop",
                            "gvu_save", "raised"}
                 => fs[get_video_list_file] = main.cacheAtEntry
           /\ (main.pc = "returned" /\ ~main.cached)
                 => /\ fs[get_video_list_file] = ListFile(Discovered(main.pages))
                    /\ main.ret = Discovered(main.pages)

C22_Witness ==
    /\ main.op = "get_video_urls"
    /\ main.pc = "returned"
    /\ main.walkStopped
    /\ Len(main.ret) = 2
    /\ main.ret[1] # main.ret[2]
    /\ fs[get_video_list_file] = ListFile(main.ret)
    /\ main.cacheAtEntry # fs[get_video_list_file]

(* C23: with every thread scheduled and every provider call and transfer  *)
(* ending, a download_channel call that has handed its URL list to the    *)
(* pool eventually returns, also when stop() is called during the batch   *)
C23_BatchTerminates ==
    (Batch /\ main.pc = "dc_pool") ~> BatchReturned

C23_Witness ==
    /\ BatchReturned
    /\ stop_requested /\ ~main.stopAtPool
    /\ job[1].promoted /\ job[1].result = "True"
    /\ job[2].afterStop /\ job[2].result = "False"

(* C24: within one download_channel batch no two workers work on the same *)
(* video identifier at the same time                                       *)
C24_OneWorkerPerVideo ==
    Batch => \A i, k \in JobIds :
                (i # k /\ Running(job[i]) /\ Running(job[k]))
                    => get_video_id(job[i].url) # get_video_id(job[k].url)

(* C25: when the first download_channel call of the process has returned, *)
(* the working directory of the process is again the one it had before    *)
(* the call, and while a worker is between opening its temporary file and *)
(* checking it the working directory is the worker's output directory     *)
C25_CwdRestored ==
    /\ (BatchReturned /\ ops = 1) => cwd = OrigDir
    /\ (Batch /\ ops = 1)
          => \A i \in JobIds : job[i].pc = "dv_write" => cwd = job[i].output_dir

(* C26: from the moment download_channel hands its URLs to the pool until *)
(* it returns, no step of the living process changes current_channel_dir, *)
(* and the only change of the stop flag is stop() setting it              *)
C26_ContextFixedInBatch ==
    [][(Batch /\ main.pc = "dc_pool" /\ main' # IdleMain)
          => /\ current_channel_dir' = current_channel_dir
             /\ stop_requested' # stop_requested => stop_requested']_vars

C26_Witness ==
    /\ Batch /\ main.pc = "dc_pool"
    /\ current_channel_dir = ChannelDir
    /\ stop_requested /\ ~main.stopAtPool
    /\ \E i \in JobIds : Running(job[i])
    /\ \E i \in JobIds : job[i].pc = "done" /\ job[i].result = "True"

(* C27: when a single download_video call that passed the stop check has *)
(* returned, its result is success or failure, never an exception, and    *)
(* its temporary file does not exist, unless the removal in the finally   *)
(* block itself failed                                                    *)
C27_TempGoneAtReturn ==
    (main.op = "download_video" /\ job[1].pc = "done" /\ ~job[1].afterStop)
        => /\ job[1].result \in {"True", "False"}
           /\ ~job[1].cleanupFailed
                 => ~Exists(fs, get_temp_video_path(current_channel_dir,
                                                    get_video_id(job[1].url)))

C27_Witness ==
    /\ main.op = "download_video" /\ job[1].pc = "done"
    /\ job[1].result = "False" /\ job[1].cleaned
    /\ ~Exists(fs, get_temp_video_path(current_channel_dir,
                                       get_video_id(job[1].url)))

(* C28: a temporary file that was in the channel directory when the batch *)
(* began (left by an attempt that crashed) has been removed when the      *)
(* download_video call for its video starts the transfer                  *)
C28_StaleTempRemoved ==
    Batch => \A i \in JobIds :
        (/\ job[i].pc = "dv_download"
         /\ job[i].video_id \in main.staleTemps
         /\ \A k \in JobIds \ {i} : job[k].url # job[i].url)
        => ~Exists(fs, <<ChannelDir, temp_filename(job[i].video_id)>>)

(* C29: a get_video_metadata call nests at most one call; when the file is *)
(* missing or force_refresh is set, a call that returns has made exactly   *)
(* one fetch, one save and one read, in one nested call, and with the file *)
(* on disk and no force_refresh no fetch, no save and one read; the value  *)
(* returned is the deserialized content of the metadata file               *)
C29_SingleRefetch ==
    main.op = "get_video_metadata"
        => /\ main.depth <= 1 /\ main.fetches <= 1
           /\ main.saves <= 1 /\ main.reads <= 1
           /\ main.pc = "returned"
                 => /\ main.ret = model_validate_json(fs[MetaPathOfCall].doc)
                    /\ main.reads = 1
                    /\ IF main.force_refresh \/ main.cacheAtEntry = NoFile
                       THEN main.fetches = 1 /\ main.saves = 1 /\ main.depth = 1
                       ELSE main.fetches = 0 /\ main.saves = 0 /\ main.depth = 0

C29_Witness ==
    /\ MetaReturned
    /\ main.force_refresh /\ main.cacheAtEntry # NoFile
    /\ main.fetches = 1 /\ main.saves = 1 /\ main.reads = 1 /\ main.depth = 1
    /\ fs[MetaPathOfCall] # main.cacheAtEntry

(* C30: a get_video_urls call started after an earlier stop() is not cut   *)
(* short by that stop: when the stop flag was set before the call started  *)
(* (no stop() step can follow while the flag stays set), the walk is not   *)
(* ended by the flag                                                       *)
C30_StopCancelsOnlyCurrent ==
    (main.op = "get_video_urls" /\ main.stopAtEntry) => ~main.walkStopped

(* C31: when the final file of the video was complete at the entry of a    *)
(* download_video call without target_path, it is present and non-empty in *)
(* every state of the call, and when the call is about to return failure   *)
(* the file still has the complete content it had at the entry             *)
C31_CompletedDownloadKept ==
    \A i \in JobIds :
        (job[i].completeAtEntry /\ job[i].target_path = NoTarget)
        => LET p == get_video_path(current_channel_dir, job[i].video_id)
           IN  /\ Exists(fs, p) /\ Size(fs, p) > 0
               /\ (job[i].pc = "dv_finally"
                     /\ job[i].result \in {"exc", "False"})
                    => fs[p] = VideoFile(FullData)

(* C32: when get_video_urls has returned a list it enumerated from the   *)
(* provider, the metadata file of every URL of the list exists            *)
C32_EnumerationSavesMetadata ==
    (main.op = "get_video_urls" /\ main.pc = "returned" /\ ~main.cached)
        => \A k \in 1 .. Len(main.ret) :
              Exists(fs, get_metadata_path(current_channel_dir,
                                           get_video_id(main.ret[k])))
=============================================================================
